---------------------------- MODULE Spec2Model ----------------------------
(***************************************************************************)
(* Model of maskrcnn_benchmark/engine/trainer.py: reduce_loss_dict,        *)
(* do_train and val, run by world_size worker processes that share one     *)
(* working directory (./outputs/<key>.p and the checkpoint directory).     *)
(*                                                                         *)
(* Each worker is a sequential process; pc[w] is its position in do_train. *)
(* Loss values are exact rationals <<numerator, denominator>>.             *)
(***************************************************************************)
EXTENDS Integers, Sequences, FiniteSets, TLC

(* ------------------------------ bounds -------------------------------- *)
\* Largest number of worker processes.
MaxWorkers == 2
\* Largest data-loader length of the enumerated single-process runs.
MaxIter == 4
\* Largest number of worker-iterations (workers times data-loader length) of
\* the enumerated distributed runs.
MaxDistWork == 6
\* Largest data-loader length of the enumerated runs that are killed.
MaxIterFault == 3
\* Largest checkpoint_period of the enumerated runs.
MaxPeriod == 3
\* Largest number of validation datasets (len(cfg.DATASETS.TEST)).
MaxDatasets == 2
\* Largest number of times the job is killed and started again.
MaxRestarts == 1

(* ------------------------- program constants -------------------------- *)
\* trainer.py:112  iteration % 20 == 0
LogPeriod == 20
\* trainer.py:38, 37  the rank that receives the reduction (dst=0)
Dst == 0
\* the loop variable `iteration` before the for statement has bound it
Unbound == -1

\* History lists for whatever loss name a model returns.
KnownKeysAnyName ==
    {"loss_classifier", "loss_box_reg", "loss_objectness", "loss_rpn_box_reg",
     "loss_mask", "loss_a", "loss_b"}

\* trainer.py:67-70  the four history lists do_train defines as locals
KnownKeys == {"loss_classifier", "loss_box_reg", "loss_objectness", "loss_rpn_box_reg"}
\* the order in which do_train opens the four files
LoadOrder == <<"loss_classifier", "loss_box_reg", "loss_objectness", "loss_rpn_box_reg">>

\* Loss mappings a model can return (keys in mapping iteration order).
FullKeys == <<"loss_classifier", "loss_box_reg", "loss_objectness", "loss_rpn_box_reg">>
RpnOnlyKeys == <<"loss_objectness", "loss_rpn_box_reg">>
OtherKeys == <<"loss_a", "loss_b">>
MaskKeys == <<"loss_classifier", "loss_mask">>

(* ----------------------------- rationals ------------------------------ *)
RECURSIVE GCD(_, _)
GCD(a, b) == IF b = 0 THEN a ELSE GCD(b, a % b)

Abs(x) == IF x < 0 THEN -x ELSE x

\* The rational n/d in lowest terms, d > 0.
Rat(n, d) ==
    LET g == GCD(Abs(n), Abs(d))
        s == IF d < 0 THEN -1 ELSE 1
    IN  <<(s * n) \div g, (s * d) \div g>>

RatInt(n) == <<n, 1>>
\* x + y; each operand is evaluated once.
RatAdd(x, y) ==
    CHOOSE r \in {Rat(a[1] * b[2] + b[1] * a[2], a[2] * b[2]) : a \in {x}, b \in {y}} : TRUE
RatDivInt(x, k) == Rat(x[1], x[2] * k)
RatMulInt(x, k) == Rat(x[1] * k, x[2])

RECURSIVE SumSeq(_)
SumSeq(s) == IF s = <<>> THEN RatInt(0) ELSE RatAdd(Head(s), SumSeq(Tail(s)))

SeqToSet(s) == {s[j] : j \in 1..Len(s)}

\* A mapping (a Python dict, which keeps insertion order) is a sequence of
\* <<key, value>> pairs.
Keys(d) == [j \in 1..Len(d) |-> d[j][1]]
Values(d) == [j \in 1..Len(d) |-> d[j][2]]
Zip(ks, vs) == [j \in 1..(IF Len(ks) < Len(vs) THEN Len(ks) ELSE Len(vs)) |-> <<ks[j], vs[j]>>]
Get(d, k) == d[CHOOSE j \in 1..Len(d) : d[j][1] = k][2]

(* ------------------------------- state -------------------------------- *)
VARIABLES
    env,                \* the run's inputs: cfg, data loader, model behaviour, backend
    pc,                 \* pc[w]: position of worker w in do_train
    iteration,          \* iteration[w]: the for loop's variable (Unbound before the loop)
    start_iter,         \* start_iter[w]                                   (line 62)
    arguments,          \* arguments[w]: arguments["iteration"]            (line 79)
    loss_dict,          \* loss_dict[w]: the model's output                (line 87)
    losses,             \* losses[w]: the total that is back-propagated    (line 89)
    all_losses,         \* all_losses[w]: the stacked copy                 (line 36)
    loss_dict_reduced,  \* loss_dict_reduced[w]                            (line 92)
    history,            \* history[w][k]: the in-memory list of key k      (lines 67-75)
    key_idx,            \* key_idx[w]: position in `for key in ...keys()`  (line 107)
    val_idx,            \* val_idx[w]: position in val's dataset loop      (line 171)
    training,           \* training[w]: model.training
    error,              \* error[w]: the exception that ended do_train, or "none"
    events,             \* events[w]: what worker w has done in this run, in order
    files,              \* files[k]: ./outputs/<k>.p
    checkpoints,        \* every checkpointer.save so far, in order
    sent,               \* sent[w]: tensors w handed to dist.reduce, by round
    rounds,             \* rounds[w]: number of dist.reduce calls w has returned from
    arrived,            \* arrived[w]: number of synchronize() calls w has entered
    restarts,           \* how often the job was killed and started again
    resumed_from        \* the checkpoint the running job was started from (or Unbound)

vars == <<env, pc, iteration, start_iter, arguments, loss_dict, losses, all_losses,
          loss_dict_reduced, history, key_idx, val_idx, training, error, events,
          files, checkpoints, sent, rounds, arrived, restarts, resumed_from>>

world_size == env.world_size
Ranks == 0..(world_size - 1)
max_iter == env.len_data_loader
checkpoint_period == env.checkpoint_period

(* ------------------------------ inputs -------------------------------- *)
\* A file ./outputs/<key>.p: absent, empty (pickle.load meets end-of-file), or
\* holding a pickled list.
Missing == [st |-> "missing", data |-> <<>>]
Eof == [st |-> "eof", data |-> <<>>]
Pickled(list) == [st |-> "ok", data |-> list]

\* What an earlier job left in a history file.
PriorData == <<RatInt(7), RatInt(8)>>

\* The ./outputs directory the first job finds: all four files in one state
\* (absent, empty, or written by an earlier job), or one file deviating.
Layouts ==
    LET base(f) == [k \in KnownKeys |-> f]
    IN  {base(Missing), base(Eof), base(Pickled(PriorData))}
        \cup {[base(Pickled(PriorData)) EXCEPT ![k] = f] :
                  k \in KnownKeys, f \in {Missing, Eof}}
        \cup {[base(Eof) EXCEPT ![k] = Missing] : k \in KnownKeys}

KeyLists == {FullKeys, RpnOnlyKeys, OtherKeys, MaskKeys}
Backends == {"keep", "partial", "all"}

\* Single-process runs, no fault injected.
SingleRuns ==
    [world_size : {1}, len_data_loader : 0..MaxIter, checkpoint_period : 1..MaxPeriod,
     datasets : 0..MaxDatasets, loss_names : KeyLists, replicated : {TRUE},
     varying : {TRUE}, backend : {"keep"}, crash_budget : {0}]

\* Single-process runs that are killed and started again.
FaultRuns ==
    [world_size : {1}, len_data_loader : 1..MaxIterFault,
     checkpoint_period : 1..MaxIterFault, datasets : {0},
     loss_names : {FullKeys, RpnOnlyKeys}, replicated : {TRUE},
     varying : {TRUE}, backend : {"keep"}, crash_budget : {MaxRestarts}]

\* Distributed runs, no fault injected. Losses replicated on all workers are
\* run with every backend, losses that differ per worker with one; a period
\* above 1 is run where an iteration reaches it.
DistRuns ==
    {r \in [world_size : 2..MaxWorkers, len_data_loader : 0..(MaxDistWork \div 2),
            checkpoint_period : 1..2, datasets : {0, MaxDatasets},
            loss_names : {RpnOnlyKeys, OtherKeys}, replicated : BOOLEAN,
            varying : {TRUE}, backend : Backends, crash_budget : {0}] :
        /\ r.world_size * r.len_data_loader <= MaxDistWork
        /\ r.replicated \/ r.backend = "keep"
        /\ r.checkpoint_period = 1 \/ r.checkpoint_period < r.len_data_loader}

\* The end-to-end run: 50 iterations, a checkpoint every 20, one process,
\* constant losses (the j-th key's loss is j), no fault injected.
E2ERuns ==
    [world_size : {1}, len_data_loader : {50}, checkpoint_period : {20},
     datasets : {1}, loss_names : {OtherKeys, RpnOnlyKeys}, replicated : {TRUE},
     varying : {FALSE}, backend : {"keep"}, crash_budget : {0}]

IsE2E == env.len_data_loader = 50 /\ env.checkpoint_period = 20 /\ env.world_size = 1
             /\ ~env.varying

\* model(images, targets): the loss of key number j on worker w at iteration i.
LossValue(w, i, j) ==
    RatInt(j + (IF env.varying THEN 10 * i ELSE 0) + (IF env.replicated THEN 0 ELSE 3 * w))

\* model(images, targets): the loss mapping of worker w at iteration i.
Model(w, i) == [j \in 1..Len(env.loss_names) |-> <<env.loss_names[j], LossValue(w, i, j)>>]

\* The number of batches the data loader yields when started at start: the
\* loader resumes from the offset it was built with and stops at its length.
Batches(start) == IF max_iter > start THEN max_iter - start ELSE 0

(* ---------------------------- construction ---------------------------- *)
AllRanks(x) == [v \in Ranks |-> x]
NoHistory == [k \in KnownKeys |-> <<>>]

Init ==
    /\ env \in SingleRuns \cup FaultRuns \cup DistRuns \cup E2ERuns
    /\ files \in (IF env \in SingleRuns
                    THEN Layouts
                    ELSE {[k \in KnownKeys |-> Eof]})
    /\ checkpoints = <<>>
    /\ restarts = 0
    /\ resumed_from = Unbound
    /\ pc = AllRanks("start")
    /\ iteration = AllRanks(Unbound)
    /\ start_iter = AllRanks(Unbound)
    /\ arguments = AllRanks(0)
    /\ loss_dict = AllRanks(<<>>)
    /\ losses = AllRanks(RatInt(0))
    /\ all_losses = AllRanks(<<>>)
    /\ loss_dict_reduced = AllRanks(<<>>)
    /\ history = AllRanks(NoHistory)
    /\ key_idx = AllRanks(0)
    /\ val_idx = AllRanks(0)
    /\ training = AllRanks(FALSE)
    /\ error = AllRanks("none")
    /\ events = AllRanks(<<>>)
    /\ sent = AllRanks(<<>>)
    /\ rounds = AllRanks(0)
    /\ arrived = AllRanks(0)

(* ------------------------------ helpers ------------------------------- *)
Fail(w, exc) ==
    /\ pc' = [pc EXCEPT ![w] = "failed"]
    /\ error' = [error EXCEPT ![w] = exc]

Emit(w, e) == events' = [events EXCEPT ![w] = Append(@, e)]
Emit2(w, e1, e2) == events' = [events EXCEPT ![w] = Append(Append(@, e1), e2)]

\* pickle.load(open('./outputs/<k>.p', 'rb'))
LoadOutcome(f) ==
    CASE f.st = "missing" -> "FileNotFoundError"
      [] f.st = "eof" -> "EOFError"
      [] OTHER -> "ok"

\* The first of the four loads (in the order of lines 67-70) that raises, or 0.
FirstRaising(fs) ==
    IF \E j \in 1..Len(LoadOrder) : LoadOutcome(fs[LoadOrder[j]]) # "ok"
    THEN CHOOSE j \in 1..Len(LoadOrder) :
             /\ LoadOutcome(fs[LoadOrder[j]]) # "ok"
             /\ \A h \in 1..(j - 1) : LoadOutcome(fs[LoadOrder[h]]) = "ok"
    ELSE 0

(* --------------------------- reduce_loss_dict -------------------------- *)
\* Lines 31-36: the names, and torch.stack of the values: a new tensor holding
\* copies of the values.
Names(ld) == Keys(ld)
Stack(ld) == Values(ld)

\* The workers whose round-r tensors dist.reduce(all_losses, dst=0) folds into
\* the buffer of worker w. Only the destination is specified to receive all of
\* them; what a backend leaves in the other workers' buffers is its own
\* business: nothing ("keep"), the partial sum of a reduction tree in which w
\* receives from the higher ranks ("partial"), or everything ("all").
Folded(w) ==
    IF w = Dst THEN Ranks
    ELSE CASE env.backend = "keep" -> {w}
           [] env.backend = "partial" -> {v \in Ranks : v >= w}
           [] OTHER -> Ranks

RECURSIVE SumOver(_, _, _)
SumOver(S, r, j) ==
    IF S = {} THEN RatInt(0)
    ELSE LET v == CHOOSE x \in S : TRUE
         IN  RatAdd(sent[v][r][j], SumOver(S \ {v}, r, j))

\* The buffer of worker w after round r of dist.reduce.
Reduced(w, r) == [j \in 1..Len(sent[w][r]) |-> SumOver(Folded(w), r, j)]

\* A reduction that forgets the division on the main process.
DivideNowhere(w, t) == t

\* Lines 38-41: only the main process divides by world_size.
DivideOnMain(w, t) ==
    IF w = Dst THEN [j \in 1..Len(t) |-> RatDivInt(t[j], world_size)] ELSE t

\* An early return that is off by one: a single process goes on to dist.reduce.
NoReduceNeededOffByOne == world_size < 1

\* Line 28: the single-process early return.
NoReduceNeeded == world_size < 2

(* ------------------------------ do_train ------------------------------- *)
\* A load that handles end-of-file key by key: a file that reads well keeps
\* its history.
LoadHistoryPerKey(w) ==
    /\ pc[w] = "start"
    /\ start_iter' = [start_iter EXCEPT ![w] = arguments[w]]
    /\ training' = [training EXCEPT ![w] = TRUE]
    /\ LET j == FirstRaising(files)
           exc == IF j = 0 THEN "ok" ELSE LoadOutcome(files[LoadOrder[j]])
       IN  CASE exc = "ok" ->
                  /\ history' = [history EXCEPT ![w] = [k \in KnownKeys |-> files[k].data]]
                  /\ pc' = [pc EXCEPT ![w] = "loop"]
                  /\ Emit(w, <<"load", 0>>)
                  /\ UNCHANGED error
             [] exc = "EOFError" ->
                  /\ history' = [history EXCEPT ![w] =
                                     [k \in KnownKeys |->
                                          IF LoadOutcome(files[k]) = "ok"
                                          THEN files[k].data ELSE <<>>]]
                  /\ pc' = [pc EXCEPT ![w] = "loop"]
                  /\ Emit(w, <<"load_eof", j>>)
                  /\ UNCHANGED error
             [] OTHER ->
                  /\ Fail(w, exc)
                  /\ Emit(w, <<"load_failed", j>>)
                  /\ UNCHANGED history
    /\ UNCHANGED <<env, iteration, arguments, loss_dict, losses, all_losses,
                   loss_dict_reduced, key_idx, val_idx, files, checkpoints, sent,
                   rounds, arrived, restarts, resumed_from>>

\* Lines 58-75: max_iter, start_iter, model.train(), the four pickle.load calls.
LoadHistory(w) ==
    /\ pc[w] = "start"
    /\ start_iter' = [start_iter EXCEPT ![w] = arguments[w]]
    /\ training' = [training EXCEPT ![w] = TRUE]
    /\ LET j == FirstRaising(files)
           exc == IF j = 0 THEN "ok" ELSE LoadOutcome(files[LoadOrder[j]])
       IN  CASE exc = "ok" ->
                  /\ history' = [history EXCEPT ![w] = [k \in KnownKeys |-> files[k].data]]
                  /\ pc' = [pc EXCEPT ![w] = "loop"]
                  /\ Emit(w, <<"load", 0>>)
                  /\ UNCHANGED error
             [] exc = "EOFError" ->
                  /\ history' = [history EXCEPT ![w] = [k \in KnownKeys |-> <<>>]]
                  /\ pc' = [pc EXCEPT ![w] = "loop"]
                  /\ Emit(w, <<"load_eof", j>>)
                  /\ UNCHANGED error
             [] OTHER ->
                  /\ Fail(w, exc)
                  /\ Emit(w, <<"load_failed", j>>)
                  /\ UNCHANGED history
    /\ UNCHANGED <<env, iteration, arguments, loss_dict, losses, all_losses,
                   loss_dict_reduced, key_idx, val_idx, files, checkpoints, sent,
                   rounds, arrived, restarts, resumed_from>>

\* An enumeration that counts from 0 whatever the start iteration.
NextIndexFromZero(w) == IF iteration[w] = Unbound THEN 0 ELSE iteration[w] + 1

\* Line 77: the index enumerate(data_loader, start_iter) yields next.
NextIndex(w) == IF iteration[w] = Unbound THEN start_iter[w] ELSE iteration[w] + 1

\* Line 77: whether the data loader has another batch.
HasBatch(w) == NextIndex(w) < start_iter[w] + Batches(start_iter[w])

\* A loop body without the model.train() of line 83.
LoopHeadNoTrainCall(w) ==
    /\ pc[w] = "loop"
    /\ IF HasBatch(w)
       THEN /\ iteration' = [iteration EXCEPT ![w] = NextIndex(w)]
            /\ arguments' = [arguments EXCEPT ![w] = NextIndex(w)]
            /\ loss_dict' = [loss_dict EXCEPT ![w] = Model(w, NextIndex(w))]
            /\ losses' = [losses EXCEPT ![w] = SumSeq(Values(Model(w, NextIndex(w))))]
            /\ Emit2(w, <<"sched", NextIndex(w)>>,
                        <<"forward", NextIndex(w), training[w]>>)
            /\ pc' = [pc EXCEPT ![w] = "reduce"]
       ELSE /\ pc' = [pc EXCEPT ![w] = "final_save"]
            /\ UNCHANGED <<iteration, arguments, loss_dict, losses, events>>
    /\ UNCHANGED <<env, start_iter, all_losses, loss_dict_reduced, training,
                   history, key_idx, val_idx, error, files,
                   checkpoints, sent, rounds, arrived, restarts, resumed_from>>

\* Lines 77-89: the for statement binds iteration and stores it in arguments,
\* then scheduler.step(), model.train(), the forward pass and the total; or the
\* loader is exhausted and the loop ends.
LoopHead(w) ==
    /\ pc[w] = "loop"
    /\ IF HasBatch(w)
       THEN /\ iteration' = [iteration EXCEPT ![w] = NextIndex(w)]
            /\ arguments' = [arguments EXCEPT ![w] = NextIndex(w)]
            /\ training' = [training EXCEPT ![w] = TRUE]
            /\ loss_dict' = [loss_dict EXCEPT ![w] = Model(w, NextIndex(w))]
            /\ losses' = [losses EXCEPT ![w] = SumSeq(Values(Model(w, NextIndex(w))))]
            /\ Emit2(w, <<"sched", NextIndex(w)>>,
                        <<"forward", NextIndex(w), training'[w]>>)
            /\ pc' = [pc EXCEPT ![w] = "reduce"]
       ELSE /\ pc' = [pc EXCEPT ![w] = "final_save"]
            /\ UNCHANGED <<iteration, arguments, training, loss_dict, losses, events>>
    /\ UNCHANGED <<env, start_iter, all_losses, loss_dict_reduced,
                   history, key_idx, val_idx, error, files,
                   checkpoints, sent, rounds, arrived, restarts, resumed_from>>

\* A reduce that only the main process takes part in: the other workers
\* return their input without calling dist.reduce.
ReduceEnterMainOnly(w) ==
    /\ pc[w] = "reduce"
    /\ IF NoReduceNeeded \/ w # Dst
       THEN /\ loss_dict_reduced' = [loss_dict_reduced EXCEPT ![w] = loss_dict[w]]
            /\ pc' = [pc EXCEPT ![w] = "backward"]
            /\ UNCHANGED <<all_losses, sent>>
       ELSE /\ all_losses' = [all_losses EXCEPT ![w] = Stack(loss_dict[w])]
            /\ sent' = [sent EXCEPT ![w] = Append(@, Stack(loss_dict[w]))]
            /\ pc' = [pc EXCEPT ![w] = "reduce_wait"]
            /\ UNCHANGED loss_dict_reduced
    /\ UNCHANGED <<env, iteration, start_iter, arguments, loss_dict, losses, history,
                   key_idx, val_idx, training, error, events, files, checkpoints,
                   rounds, arrived, restarts, resumed_from>>

\* Lines 27-37 (called at line 92): return the input when there is one process,
\* else stack the values and hand the stacked copy to dist.reduce.
ReduceEnter(w) ==
    /\ pc[w] = "reduce"
    /\ IF NoReduceNeeded
       THEN /\ loss_dict_reduced' = [loss_dict_reduced EXCEPT ![w] = loss_dict[w]]
            /\ pc' = [pc EXCEPT ![w] = "backward"]
            /\ UNCHANGED <<all_losses, sent>>
       ELSE /\ all_losses' = [all_losses EXCEPT ![w] = Stack(loss_dict[w])]
            /\ sent' = [sent EXCEPT ![w] = Append(@, Stack(loss_dict[w]))]
            /\ pc' = [pc EXCEPT ![w] = "reduce_wait"]
            /\ UNCHANGED loss_dict_reduced
    /\ UNCHANGED <<env, iteration, start_iter, arguments, loss_dict, losses, history,
                   key_idx, val_idx, training, error, events, files, checkpoints,
                   rounds, arrived, restarts, resumed_from>>

\* dist.reduce is a collective: the call of a worker returns once every worker
\* of the run has made its call of the same round.
ReduceOpen(w) == \A v \in Ranks : Len(sent[v]) >= rounds[w] + 1

\* Lines 37-43: dist.reduce returns; the main process divides; the reduced
\* mapping is built from the names and the buffer.
ReduceReturn(w) ==
    /\ pc[w] = "reduce_wait"
    /\ ReduceOpen(w)
    /\ LET r == rounds[w] + 1
       IN  /\ \E t \in {Reduced(w, r)} : \E d \in {DivideOnMain(w, t)} :
                  /\ all_losses' = [all_losses EXCEPT ![w] = d]
                  /\ loss_dict_reduced' =
                         [loss_dict_reduced EXCEPT ![w] = Zip(Names(loss_dict[w]), d)]
           /\ rounds' = [rounds EXCEPT ![w] = r]
    /\ pc' = [pc EXCEPT ![w] = "backward"]
    /\ UNCHANGED <<env, iteration, start_iter, arguments, loss_dict, losses, history,
                   key_idx, val_idx, training, error, events, files, checkpoints,
                   sent, arrived, restarts, resumed_from>>

\* A gradient step taken on the total of the reduced losses (line 93) instead.
BackpropagatedReduced(w) == SumSeq(Values(loss_dict_reduced[w]))

\* Line 97: the value losses.backward() differentiates.
Backpropagated(w) == losses[w]

\* Lines 93-98: the meters, zero_grad, losses.backward(), optimizer.step().
Backward(w) ==
    /\ pc[w] = "backward"
    /\ Emit(w, <<"opt", iteration[w], Backpropagated(w)>>)
    /\ key_idx' = [key_idx EXCEPT ![w] = 1]
    /\ pc' = [pc EXCEPT ![w] = "history"]
    /\ UNCHANGED <<env, iteration, start_iter, arguments, loss_dict, losses, all_losses,
                   loss_dict_reduced, history, val_idx, training, error, files,
                   checkpoints, sent, rounds, arrived, restarts, resumed_from>>

\* A history write that only the main process carries out: the other workers
\* append in memory and leave the file alone.
HistoryStepMainOnly(w) ==
    /\ pc[w] = "history"
    /\ LET key == Keys(loss_dict_reduced[w])[key_idx[w]]
       IN  IF key \notin KnownKeys
           THEN /\ Fail(w, "NameError")
                /\ Emit(w, <<"append_failed", iteration[w], key>>)
                /\ UNCHANGED <<history, files, key_idx>>
           ELSE /\ history' = [history EXCEPT ![w][key] =
                                   Append(@, Get(loss_dict_reduced[w], key))]
                /\ files' = IF w = Dst
                            THEN [files EXCEPT ![key] = Pickled(history'[w][key])]
                            ELSE files
                /\ Emit(w, <<"history", iteration[w], key>>)
                /\ IF key_idx[w] < Len(loss_dict_reduced[w])
                   THEN /\ key_idx' = [key_idx EXCEPT ![w] = @ + 1]
                        /\ UNCHANGED pc
                   ELSE /\ pc' = [pc EXCEPT ![w] = "log"]
                        /\ UNCHANGED key_idx
                /\ UNCHANGED error
    /\ UNCHANGED <<env, iteration, start_iter, arguments, loss_dict, losses, all_losses,
                   loss_dict_reduced, val_idx, training, checkpoints, sent, rounds,
                   arrived, restarts, resumed_from>>

\* Lines 107-109, one key: exec('<key>.append(...)') needs a local list named
\* <key>; then the whole list is pickled over ./outputs/<key>.p.
HistoryStep(w) ==
    /\ pc[w] = "history"
    /\ LET key == Keys(loss_dict_reduced[w])[key_idx[w]]
       IN  IF key \notin KnownKeys
           THEN /\ Fail(w, "NameError")
                /\ Emit(w, <<"append_failed", iteration[w], key>>)
                /\ UNCHANGED <<history, files, key_idx>>
           ELSE /\ history' = [history EXCEPT ![w][key] =
                                   Append(@, Get(loss_dict_reduced[w], key))]
                /\ files' = [files EXCEPT ![key] = Pickled(history'[w][key])]
                /\ Emit(w, <<"history", iteration[w], key>>)
                /\ IF key_idx[w] < Len(loss_dict_reduced[w])
                   THEN /\ key_idx' = [key_idx EXCEPT ![w] = @ + 1]
                        /\ UNCHANGED pc
                   ELSE /\ pc' = [pc EXCEPT ![w] = "log"]
                        /\ UNCHANGED key_idx
                /\ UNCHANGED error
    /\ UNCHANGED <<env, iteration, start_iter, arguments, loss_dict, losses, all_losses,
                   loss_dict_reduced, val_idx, training, checkpoints, sent, rounds,
                   arrived, restarts, resumed_from>>

\* A logging cadence that forgets the last iteration.
LogDueWithoutLast(i) == i % LogPeriod = 0

\* Line 112: the logging cadence.
LogDue(i) == i % LogPeriod = 0 \/ i = max_iter - 1

\* A cadence that forgets `and iteration > 0`.
CheckpointDueAtZero(i) == i % checkpoint_period = 0

\* Line 141: the checkpoint cadence.
CheckpointDue(i) == i % checkpoint_period = 0 /\ i > 0

\* checkpointer.save("model_{:07d}".format(iteration), **arguments)
Saved(w, final) ==
    [tag |-> iteration[w], iteration |-> arguments[w], rank |-> w, final |-> final]

\* What lines 112-143 add to the worker's record: the log line with the plots
\* when due, the checkpoint save when due.
Logged(w) == IF LogDue(iteration[w]) THEN <<(<<"log", iteration[w]>>)>> ELSE <<>>
SavedThenVal(w) == <<(<<"save", iteration[w]>>), (<<"val_begin", iteration[w]>>)>>

\* A loop that starts val and goes on training without waiting for it.
LogAndCheckpointValDetached(w) ==
    /\ pc[w] = "log"
    /\ IF CheckpointDue(iteration[w])
       THEN /\ checkpoints' = Append(checkpoints, Saved(w, FALSE))
            /\ events' = [events EXCEPT ![w] = @ \o Logged(w) \o SavedThenVal(w)]
       ELSE /\ events' = [events EXCEPT ![w] = @ \o Logged(w)]
            /\ UNCHANGED checkpoints
    /\ pc' = [pc EXCEPT ![w] = "loop"]
    /\ UNCHANGED <<env, iteration, start_iter, arguments, loss_dict, losses, all_losses,
                   loss_dict_reduced, history, key_idx, val_idx, training, error,
                   files, sent, rounds, arrived, restarts, resumed_from>>

\* Lines 112-143 and 156-170: the log line and one plot per key when due; the
\* periodic checkpoint when due, followed by the call of val, which unwraps
\* the model and builds the output folders and the data loaders.
LogAndCheckpoint(w) ==
    /\ pc[w] = "log"
    /\ IF CheckpointDue(iteration[w])
       THEN /\ checkpoints' = Append(checkpoints, Saved(w, FALSE))
            /\ events' = [events EXCEPT ![w] = @ \o Logged(w) \o SavedThenVal(w)]
            /\ val_idx' = [val_idx EXCEPT ![w] = 1]
            /\ pc' = [pc EXCEPT ![w] = "val"]
       ELSE /\ events' = [events EXCEPT ![w] = @ \o Logged(w)]
            /\ pc' = [pc EXCEPT ![w] = "loop"]
            /\ UNCHANGED <<checkpoints, val_idx>>
    /\ UNCHANGED <<env, iteration, start_iter, arguments, loss_dict, losses, all_losses,
                   loss_dict_reduced, history, key_idx, training, error,
                   files, sent, rounds, arrived, restarts, resumed_from>>

(* -------------------------------- val ---------------------------------- *)
\* synchronize(): a barrier over all workers; it returns at once when there is
\* one process.
BarrierOpen(w) == \A v \in Ranks : arrived[v] >= arrived[w]

\* A val whose dataset loop goes on to the next dataset without synchronize().
ValInferenceNoSync(w) ==
    /\ pc[w] = "val"
    /\ IF val_idx[w] <= env.datasets
       THEN /\ training' = [training EXCEPT ![w] = FALSE]
            /\ Emit(w, <<"inference", iteration[w], val_idx[w]>>)
            /\ val_idx' = [val_idx EXCEPT ![w] = @ + 1]
            /\ UNCHANGED pc
       ELSE /\ Emit(w, <<"val_end", iteration[w]>>)
            /\ pc' = [pc EXCEPT ![w] = "loop"]
            /\ UNCHANGED <<training, val_idx>>
    /\ UNCHANGED <<env, iteration, start_iter, arguments, loss_dict, losses, all_losses,
                   loss_dict_reduced, history, key_idx, error, files,
                   checkpoints, sent, rounds, arrived, restarts, resumed_from>>

\* A val in which the main process skips synchronize().
ValInferenceMainSkipsSync(w) ==
    /\ pc[w] = "val"
    /\ IF val_idx[w] <= env.datasets
       THEN /\ training' = [training EXCEPT ![w] = FALSE]
            /\ Emit(w, <<"inference", iteration[w], val_idx[w]>>)
            /\ IF w # Dst
               THEN /\ arrived' = [arrived EXCEPT ![w] = @ + 1]
                    /\ pc' = [pc EXCEPT ![w] = "sync_wait"]
                    /\ UNCHANGED val_idx
               ELSE /\ val_idx' = [val_idx EXCEPT ![w] = @ + 1]
                    /\ UNCHANGED <<pc, arrived>>
       ELSE /\ Emit(w, <<"val_end", iteration[w]>>)
            /\ pc' = [pc EXCEPT ![w] = "loop"]
            /\ UNCHANGED <<training, arrived, val_idx>>
    /\ UNCHANGED <<env, iteration, start_iter, arguments, loss_dict, losses, all_losses,
                   loss_dict_reduced, history, key_idx, error, files,
                   checkpoints, sent, rounds, restarts, resumed_from>>

\* Lines 171-182: inference on the next dataset (which puts the model in
\* evaluation mode) and the call of synchronize(), made whatever the number
\* of processes; or the loop over the datasets is over and val returns to the
\* training loop.
ValInference(w) ==
    /\ pc[w] = "val"
    /\ IF val_idx[w] <= env.datasets
       THEN /\ training' = [training EXCEPT ![w] = FALSE]
            /\ Emit(w, <<"inference", iteration[w], val_idx[w]>>)
            /\ arrived' = [arrived EXCEPT ![w] = @ + 1]
            /\ pc' = [pc EXCEPT ![w] = "sync_wait"]
            /\ UNCHANGED val_idx
       ELSE /\ Emit(w, <<"val_end", iteration[w]>>)
            /\ pc' = [pc EXCEPT ![w] = "loop"]
            /\ UNCHANGED <<training, arrived, val_idx>>
    /\ UNCHANGED <<env, iteration, start_iter, arguments, loss_dict, losses, all_losses,
                   loss_dict_reduced, history, key_idx, error, files,
                   checkpoints, sent, rounds, restarts, resumed_from>>

\* Line 182: synchronize() returns; on to the next dataset (line 171).
SyncReturn(w) ==
    /\ pc[w] = "sync_wait"
    /\ BarrierOpen(w)
    /\ val_idx' = [val_idx EXCEPT ![w] = @ + 1]
    /\ Emit(w, <<"synced", iteration[w], val_idx[w]>>)
    /\ pc' = [pc EXCEPT ![w] = "val"]
    /\ UNCHANGED <<env, iteration, start_iter, arguments, loss_dict, losses, all_losses,
                   loss_dict_reduced, history, key_idx, training, error, files,
                   checkpoints, sent, rounds, arrived, restarts, resumed_from>>

(* --------------------------- after the loop ---------------------------- *)
\* An `iteration` that is bound even when the loop body never ran.
IterationBoundAlways(w) == TRUE

\* Line 147 reads `iteration`, which only the for statement binds.
IterationBound(w) == iteration[w] # Unbound

\* Line 147: the final checkpoint; reading `iteration` raises when the loop
\* body never ran.
FinalSave(w) ==
    /\ pc[w] = "final_save"
    /\ IF IterationBound(w)
       THEN /\ checkpoints' = Append(checkpoints, Saved(w, TRUE))
            /\ Emit(w, <<"final_save", iteration[w]>>)
            /\ pc' = [pc EXCEPT ![w] = "report"]
            /\ UNCHANGED error
       ELSE /\ Fail(w, "UnboundLocalError")
            /\ Emit(w, <<"final_save_failed", 0>>)
            /\ UNCHANGED checkpoints
    /\ UNCHANGED <<env, iteration, start_iter, arguments, loss_dict, losses, all_losses,
                   loss_dict_reduced, history, key_idx, val_idx, training, files,
                   sent, rounds, arrived, restarts, resumed_from>>

\* Lines 148-154: total_training_time / (max_iter).
FinalReport(w) ==
    /\ pc[w] = "report"
    /\ IF max_iter = 0
       THEN /\ Fail(w, "ZeroDivisionError")
            /\ Emit(w, <<"report_failed", 0>>)
       ELSE /\ pc' = [pc EXCEPT ![w] = "done"]
            /\ Emit(w, <<"report", max_iter>>)
            /\ UNCHANGED error
    /\ UNCHANGED <<env, iteration, start_iter, arguments, loss_dict, losses, all_losses,
                   loss_dict_reduced, history, key_idx, val_idx, training, files,
                   checkpoints, sent, rounds, arrived, restarts, resumed_from>>

(* ------------------------------ restart -------------------------------- *)
\* The job is started again on every worker: the training arguments come from
\* the checkpoint saved last (iteration 0 when there is none), the working
\* directory is as the killed job left it.
StartAgain ==
    /\ restarts < env.crash_budget
    /\ restarts' = restarts + 1
    /\ resumed_from' = IF checkpoints = <<>> THEN Unbound
                       ELSE checkpoints[Len(checkpoints)].tag
    /\ arguments' = AllRanks(IF checkpoints = <<>> THEN 0
                             ELSE checkpoints[Len(checkpoints)].iteration)
    /\ pc' = AllRanks("start")
    /\ iteration' = AllRanks(Unbound)
    /\ start_iter' = AllRanks(Unbound)
    /\ loss_dict' = AllRanks(<<>>)
    /\ losses' = AllRanks(RatInt(0))
    /\ all_losses' = AllRanks(<<>>)
    /\ loss_dict_reduced' = AllRanks(<<>>)
    /\ history' = AllRanks(NoHistory)
    /\ key_idx' = AllRanks(0)
    /\ val_idx' = AllRanks(0)
    /\ training' = AllRanks(FALSE)
    /\ error' = AllRanks("none")
    /\ events' = AllRanks(<<>>)
    /\ sent' = AllRanks(<<>>)
    /\ rounds' = AllRanks(0)
    /\ arrived' = AllRanks(0)
    /\ UNCHANGED <<env, checkpoints>>

\* The job is killed at any point after it did something, and started again.
Restart ==
    /\ \E w \in Ranks : pc[w] # "start"
    /\ StartAgain
    /\ UNCHANGED files

\* The job is killed while worker w is inside pickle.dump(..., open(..., "wb")):
\* open has emptied the file and the list is not written yet.
RestartTornWrite(w) ==
    /\ pc[w] = "history"
    /\ Keys(loss_dict_reduced[w])[key_idx[w]] \in KnownKeys
    /\ files' = [files EXCEPT ![Keys(loss_dict_reduced[w])[key_idx[w]]] = Eof]
    /\ StartAgain

Next ==
    \/ \E w \in Ranks : LoadHistory(w)
    \/ \E w \in Ranks : LoopHead(w)
    \/ \E w \in Ranks : ReduceEnter(w)
    \/ \E w \in Ranks : ReduceReturn(w)
    \/ \E w \in Ranks : Backward(w)
    \/ \E w \in Ranks : HistoryStep(w)
    \/ \E w \in Ranks : LogAndCheckpoint(w)
    \/ \E w \in Ranks : ValInference(w)
    \/ \E w \in Ranks : SyncReturn(w)
    \/ \E w \in Ranks : FinalSave(w)
    \/ \E w \in Ranks : FinalReport(w)
    \/ \E w \in Ranks : RestartTornWrite(w)
    \/ Restart

Spec == Init /\ [][Next]_vars

\* Any step of worker w: each worker is a process of its own, running
\* do_train from the history load to the final report.
WorkerStep(w) ==
    /\ w \in Ranks
    /\ \/ LoadHistory(w)
       \/ LoopHead(w)
       \/ ReduceEnter(w)
       \/ ReduceReturn(w)
       \/ Backward(w)
       \/ HistoryStep(w)
       \/ LogAndCheckpoint(w)
       \/ ValInference(w)
       \/ SyncReturn(w)
       \/ FinalSave(w)
       \/ FinalReport(w)

\* Fair scheduling: a worker that can take a step is not left waiting forever.
\* Nothing obliges a job to be killed.
Fairness == \A w \in 0..(MaxWorkers - 1) : WF_vars(WorkerStep(w))

FairSpec == Spec /\ Fairness

(* ======================= properties: reduce_loss_dict ================== *)
\* Worker w holds the result of reduce_loss_dict for its current iteration.
HoldsReduced(w) == pc[w] \in {"backward", "history", "log"} /\ error[w] = "none"

\* The values the model returned on worker v at iteration i.
Own(v, i) == [j \in 1..Len(env.loss_names) |-> LossValue(v, i, j)]

\* The sum over the workers in S of their j-th loss at iteration i.
RECURSIVE Total(_, _, _)
Total(S, i, j) ==
    IF S = {} THEN RatInt(0)
    ELSE LET v == CHOOSE x \in S : TRUE
         IN  RatAdd(LossValue(v, i, j), Total(S \ {v}, i, j))

\* C1 as stated: with two or more workers and the same loss mapping on every
\* worker, rank 0 gets the mapping of the averages and every other rank gets,
\* under the same keys, the sum over all the workers, not divided.
C1_OthersHoldTheSum ==
    \A w \in Ranks :
        (world_size >= 2 /\ env.replicated /\ HoldsReduced(w)) =>
            /\ Keys(loss_dict_reduced[w]) = env.loss_names
            /\ \A j \in 1..Len(env.loss_names) :
                   loss_dict_reduced[w][j][2] =
                       IF w = 0
                       THEN RatDivInt(Total(Ranks, iteration[w], j), world_size)
                       ELSE Total(Ranks, iteration[w], j)

\* C1 as amended: with two or more workers and the same loss mapping on every
\* worker, every rank gets a mapping with the input's keys; on rank 0 each
\* value is the average over the workers; on any other rank it is never
\* divided, and is the sum over some set of workers that holds the rank itself
\* (which set is up to the backend: only rank 0 is sure to receive them all).
C1_MainHoldsTheAverage ==
    \A w \in Ranks :
        (world_size >= 2 /\ env.replicated /\ HoldsReduced(w)) =>
            /\ Keys(loss_dict_reduced[w]) = env.loss_names
            /\ \A j \in 1..Len(env.loss_names) :
                   IF w = 0
                   THEN RatMulInt(loss_dict_reduced[w][j][2], world_size)
                            = Total(Ranks, iteration[w], j)
                   ELSE \E S \in SUBSET Ranks :
                            /\ w \in S
                            /\ loss_dict_reduced[w][j][2] = Total(S, iteration[w], j)

\* Both ranks of a replicated run hold their reduced mapping, and rank 1's
\* is not the sum over the workers.
C1_Witness ==
    /\ world_size >= 2 /\ env.replicated
    /\ HoldsReduced(0) /\ HoldsReduced(1)
    /\ iteration[0] = iteration[1]
    /\ loss_dict_reduced[0] = loss_dict[0]
    /\ loss_dict_reduced[1][1][2] # Total(Ranks, iteration[1], 1)

\* C2: with one worker reduce_loss_dict returns its input, the model's
\* mapping, unchanged, and nothing is ever handed to dist.reduce.
C2_SingleProcessIdentity ==
    \A w \in Ranks :
        world_size = 1 =>
            /\ sent[w] = <<>> /\ rounds[w] = 0 /\ all_losses[w] = <<>>
            /\ HoldsReduced(w) =>
                   /\ loss_dict_reduced[w] = loss_dict[w]
                   /\ Keys(loss_dict_reduced[w]) = env.loss_names
                   /\ Values(loss_dict_reduced[w]) = Own(w, iteration[w])

\* A single process is past reduce_loss_dict in its second iteration.
C2_Witness ==
    /\ world_size = 1
    /\ HoldsReduced(0)
    /\ iteration[0] = 1
    /\ loss_dict_reduced[0] # <<>>

\* Worker w has called reduce_loss_dict in its current iteration.
PastReduceCall(w) == pc[w] \in {"reduce_wait", "backward", "history", "log"}

\* C3: reduce_loss_dict leaves its input as the model returned it, for any
\* number of workers, and every optimizer step back-propagates the sum of the
\* worker's own losses of that iteration.
C3_OwnLossesBackpropagated ==
    \A w \in Ranks :
        /\ PastReduceCall(w) =>
               /\ Keys(loss_dict[w]) = env.loss_names
               /\ Values(loss_dict[w]) = Own(w, iteration[w])
        /\ \A n \in 1..Len(events[w]) :
               events[w][n][1] = "opt" =>
                   events[w][n][3] = SumSeq(Own(w, events[w][n][2]))

\* Rank 0 of a distributed run has taken an optimizer step in an iteration
\* whose reduced losses differ from its own.
C3_Witness ==
    /\ world_size >= 2
    /\ pc[0] = "history"
    /\ events[0][Len(events[0])][1] = "opt"
    /\ Values(loss_dict_reduced[0]) # Own(0, iteration[0])
    /\ SumSeq(Values(loss_dict_reduced[0])) # losses[0]

(* ========================== properties: do_train ======================= *)
\* How often worker w has recorded an event of this kind for this iteration.
Count(w, kind, i) ==
    Len(SelectSeq(events[w], LAMBDA e : e[1] = kind /\ e[2] = i))

\* The iterations of this run whose checkpoint test (line 141) worker w has
\* evaluated.
Tested(w) ==
    {i \in 0..iteration[w] :
        /\ i >= start_iter[w]
        /\ \/ i < iteration[w]
           \/ pc[w] \in {"val", "sync_wait", "loop", "final_save", "report", "done"}}

\* C4: for every checkpoint_period P >= 1, in every run, the loop saves a
\* checkpoint exactly at the iterations that are positive multiples of P, each
\* save is followed at once by the validation pass, validation is started by
\* nothing else, and the only other save is the single final one after the
\* loop, tagged max_iter - 1.
C4_CheckpointCadence ==
    /\ \A w \in Ranks :
          /\ \A i \in Tested(w) :
                 (i > 0 /\ i % checkpoint_period = 0) => Count(w, "save", i) = 1
          /\ \A n \in 1..Len(events[w]) :
                 /\ events[w][n][1] = "save" =>
                        /\ events[w][n][2] \in Tested(w)
                        /\ events[w][n][2] > 0
                        /\ events[w][n][2] % checkpoint_period = 0
                        /\ n < Len(events[w])
                        /\ events[w][n + 1][1] = "val_begin"
                        /\ events[w][n + 1][2] = events[w][n][2]
                 /\ events[w][n][1] = "val_begin" =>
                        /\ n > 1
                        /\ events[w][n - 1][1] = "save"
                        /\ events[w][n - 1][2] = events[w][n][2]
                 /\ events[w][n][1] = "final_save" =>
                        /\ events[w][n][2] = max_iter - 1
                        /\ \A m \in (n + 1)..Len(events[w]) : events[w][m][1] = "report"
                        /\ \A m \in 1..(n - 1) : events[w][m][1] # "final_save"
    /\ \A n \in 1..Len(checkpoints) :
          IF checkpoints[n].final
          THEN checkpoints[n].tag = max_iter - 1
          ELSE checkpoints[n].tag > 0 /\ checkpoints[n].tag % checkpoint_period = 0

\* A finished run with a period of at least 2 that saved at P and at 2P, ran
\* iterations in between, and whose last iteration is no multiple of P.
C4_Witness ==
    \E w \in Ranks :
        /\ pc[w] = "done"
        /\ checkpoint_period >= 2
        /\ (max_iter - 1) % checkpoint_period # 0
        /\ Count(w, "save", checkpoint_period) = 1
        /\ Count(w, "save", 2 * checkpoint_period) = 1
        /\ Count(w, "save", checkpoint_period + 1) = 0
        /\ Count(w, "final_save", max_iter - 1) = 1

\* C5 as stated: a job started from the checkpoint that the loop saved at
\* iteration N (line 142) executes N+1 first, and does not execute iteration
\* N again.
C5_ResumesAtNext ==
    \A w \in Ranks :
        (resumed_from > 0 /\ resumed_from < max_iter - 1) =>
            /\ start_iter[w] \in {Unbound, resumed_from + 1}
            /\ \A n \in 1..Len(events[w]) :
                   events[w][n][1] = "sched" => events[w][n][2] >= resumed_from + 1

\* The tracked keys: those of the loss mapping that have a history.
Tracked == {j \in 1..Len(env.loss_names) : env.loss_names[j] \in KnownKeys}

\* Worker w has finished the history writes of its current iteration.
HistoryWritten(w) ==
    /\ iteration[w] # Unbound
    /\ pc[w] \in {"log", "val", "sync_wait", "loop", "final_save", "report", "done"}

\* C6 as stated: in a single process that found empty histories when it first
\* started, whenever the history writes of iteration i are done every tracked
\* key's file holds exactly i + 1 entries, the n-th being the loss of
\* iteration n - 1, also after the job was killed and started again; and what
\* a starting job loads from four readable files is what the files hold.
C6_HistoryLengthIsIterationCount ==
    \A w \in Ranks :
        env \in FaultRuns =>
            /\ HistoryWritten(w) =>
                   \A j \in Tracked :
                       /\ files[env.loss_names[j]].st = "ok"
                       /\ files[env.loss_names[j]].data =
                              [n \in 1..(iteration[w] + 1) |-> LossValue(w, n - 1, j)]
            /\ (pc[w] = "loop" /\ iteration[w] = Unbound
                    /\ \A k \in KnownKeys : files[k].st = "ok") =>
                   \A k \in KnownKeys : history[w][k] = files[k].data

\* The same, for the jobs that are never killed.
C6_HoldsWithoutRestart ==
    \A w \in Ranks :
        (env \in FaultRuns /\ restarts = 0) =>
            /\ HistoryWritten(w) =>
                   \A j \in Tracked :
                       /\ files[env.loss_names[j]].st = "ok"
                       /\ files[env.loss_names[j]].data =
                              [n \in 1..(iteration[w] + 1) |-> LossValue(w, n - 1, j)]
            /\ (pc[w] = "loop" /\ iteration[w] = Unbound
                    /\ \A k \in KnownKeys : files[k].st = "ok") =>
                   \A k \in KnownKeys : history[w][k] = files[k].data

\* C7 as stated: a missing or empty history file does not stop do_train: the
\* load leaves every history empty and the worker goes on to the loop.
C7_LoadNotFatal ==
    \A w \in Ranks :
        (pc[w] # "start" /\ Len(events[w]) = 1) =>
            /\ events[w][1][1] \in {"load", "load_eof"}
            /\ pc[w] = "loop"
            /\ (\E k \in KnownKeys : files[k].st # "ok") =>
                   \A k \in KnownKeys : history[w][k] = <<>>

\* C8 as stated: with max_iter = 0 a run that got past the history load fails
\* with the division by zero of the final report.
C8_FailsAtDivision ==
    \A w \in Ranks :
        (max_iter = 0 /\ pc[w] = "failed" /\ error[w] # "FileNotFoundError") =>
            error[w] = "ZeroDivisionError"

\* C8 as amended: with max_iter = 0 no worker reaches the division of the
\* final report: a worker that got past the history load fails at the final
\* checkpoint save, where `iteration` was never bound, and saves nothing.
C8_FailsBeforeDivision ==
    \A w \in Ranks :
        max_iter = 0 =>
            /\ pc[w] \notin {"report", "done"}
            /\ error[w] \in {"none", "FileNotFoundError", "UnboundLocalError"}
            /\ checkpoints = <<>>
            /\ pc[w] \in {"start", "loop", "final_save", "failed"}
            /\ (pc[w] = "failed" /\ error[w] = "UnboundLocalError") =>
                   events[w][Len(events[w])][1] = "final_save_failed"

\* A worker of a run with an empty data loader has failed at the final save.
C8_Witness ==
    \E w \in Ranks :
        /\ max_iter = 0
        /\ pc[w] = "failed"
        /\ error[w] = "UnboundLocalError"

\* C9 as stated: the run of 50 iterations with a checkpoint every 20, one
\* process, empty histories and the constant losses loss_a = 1, loss_b = 2
\* ends normally with the saves 20, 40 and the final 49, and a history of 50
\* entries per key, each the key's constant.
C9_EndToEnd ==
    (IsE2E /\ env.loss_names = OtherKeys /\ pc[0] \in {"done", "failed"}) =>
        /\ pc[0] = "done"
        /\ [n \in 1..Len(checkpoints) |-> <<checkpoints[n].tag, checkpoints[n].final>>]
               = <<(<<20, FALSE>>), (<<40, FALSE>>), (<<49, TRUE>>)>>
        /\ \A j \in 1..Len(env.loss_names) :
               /\ env.loss_names[j] \in DOMAIN files
               /\ files[env.loss_names[j]] = Pickled([n \in 1..50 |-> RatInt(j)])

\* The same run with two loss names do_train has a history for.
C9_HoldsForKnownKeys ==
    (IsE2E /\ env.loss_names = RpnOnlyKeys /\ pc[0] \in {"done", "failed"}) =>
        /\ pc[0] = "done"
        /\ [n \in 1..Len(checkpoints) |-> <<checkpoints[n].tag, checkpoints[n].final>>]
               = <<(<<20, FALSE>>), (<<40, FALSE>>), (<<49, TRUE>>)>>
        /\ \A j \in 1..Len(env.loss_names) :
               /\ env.loss_names[j] \in DOMAIN files
               /\ files[env.loss_names[j]] = Pickled([n \in 1..50 |-> RatInt(j)])

(* ============================ properties: val ========================== *)
\* Worker v has finished the inference call on dataset d of the validation
\* pass of iteration i.
Inferred(v, i, d) ==
    \E n \in 1..Len(events[v]) :
        /\ events[v][n][1] = "inference"
        /\ events[v][n][2] = i
        /\ events[v][n][3] = d

\* Worker w has run the validation pass of iteration i.
Validated(w, i) ==
    \E n \in 1..Len(events[w]) : events[w][n][1] = "val_begin" /\ events[w][n][2] = i

\* C10: with two or more workers, a worker has done inference on dataset d + 1
\* of a validation pass only if every worker has finished inference on
\* dataset d of that pass, and a worker has left the pass, or begun the
\* training iteration after it, only if every worker has finished inference on
\* every dataset of the pass.
C10_NoWorkerRunsAhead ==
    world_size >= 2 =>
        \A w \in Ranks : \A n \in 1..Len(events[w]) :
            LET kind == events[w][n][1]
                i == events[w][n][2]
            IN  CASE kind = "inference" ->
                         events[w][n][3] > 1 =>
                             \A v \in Ranks : Inferred(v, i, events[w][n][3] - 1)
                  [] kind = "val_end" ->
                         \A v \in Ranks : \A d \in 1..env.datasets : Inferred(v, i, d)
                  [] kind = "sched" ->
                         Validated(w, i - 1) =>
                             \A v \in Ranks : \A d \in 1..env.datasets :
                                 Inferred(v, i - 1, d)
                  [] OTHER -> TRUE

\* A worker of a distributed run with two datasets has begun the training
\* iteration that follows a validation pass, while another worker is still in
\* the training iteration before.
C10_Witness ==
    /\ world_size >= 2
    /\ env.datasets >= 2
    /\ \E w \in Ranks : \E n \in 1..Len(events[w]) :
           /\ events[w][n][1] = "sched"
           /\ Validated(w, events[w][n][2] - 1)
           /\ \E v \in Ranks : iteration[v] < iteration[w]

(* ===================== properties: order within a worker =============== *)
\* The position in worker w's record of its first event of this kind for
\* iteration i, or 0.
First(w, kind, i) ==
    IF \E n \in 1..Len(events[w]) : events[w][n][1] = kind /\ events[w][n][2] = i
    THEN CHOOSE n \in 1..Len(events[w]) :
             /\ events[w][n][1] = kind /\ events[w][n][2] = i
             /\ \A m \in 1..(n - 1) : ~(events[w][m][1] = kind /\ events[w][m][2] = i)
    ELSE 0

TrainingSteps == {"sched", "forward", "opt", "history", "log"}
ValSteps == {"val_begin", "inference", "synced", "val_end"}

\* C11: in every worker's record a checkpoint save tagged N comes after the
\* optimizer step of iteration N and is followed at once by the start of the
\* validation pass; from the save to the end of that pass the worker records
\* validation steps only, the pass ending after the inference on every dataset
\* and the barrier after each; and the scheduler step, forward pass and optimizer
\* step of iteration N + 1 come after the end of the pass.
C11_ValBlocksTraining ==
    \A w \in Ranks : \A n \in 1..Len(events[w]) :
        events[w][n][1] = "save" =>
            LET N == events[w][n][2]
                end == First(w, "val_end", N)
                last == IF end = 0 THEN Len(events[w]) ELSE end
            IN  /\ \E m \in 1..(n - 1) : events[w][m][1] = "opt" /\ events[w][m][2] = N
                /\ \A m \in (n + 1)..last : events[w][m][1] \in ValSteps
                /\ n < Len(events[w]) /\ events[w][n + 1][1] = "val_begin"
                /\ (end # 0) => end = n + 2 + 2 * env.datasets
                /\ \A m \in 1..Len(events[w]) :
                       (events[w][m][1] \in TrainingSteps /\ events[w][m][2] = N + 1) =>
                           end # 0 /\ m > end

\* A worker has saved a checkpoint, run a validation pass over at least one
\* dataset, and taken the optimizer step of the following iteration.
C11_Witness ==
    \E w \in Ranks : \E n \in 1..Len(events[w]) :
        /\ events[w][n][1] = "save"
        /\ env.datasets >= 1
        /\ First(w, "val_end", events[w][n][2]) > n
        /\ First(w, "opt", events[w][n][2] + 1) > First(w, "val_end", events[w][n][2])

\* The iteration indices worker w has executed so far, in the order of its
\* scheduler steps.
Executed(w) ==
    LET steps == SelectSeq(events[w], LAMBDA e : e[1] = "sched")
    IN  [n \in 1..Len(steps) |-> steps[n][2]]

\* Worker w has left the loop of line 77.
LoopOver(w) == pc[w] \in {"final_save", "report", "done"}

\* C12: a worker started with start_iter = s < max_iter executes the indices
\* s, s + 1, ... in this order, each once; when it has left the loop it has
\* executed all of s .. max_iter - 1, the last index it holds is max_iter - 1,
\* and that is the tag of the final checkpoint.
C12_IndicesFromStartToLast ==
    \A w \in Ranks :
        (pc[w] # "start" /\ start_iter[w] < max_iter) =>
            /\ \E done \in {Executed(w)} :
                   /\ done = [n \in 1..Len(done) |-> start_iter[w] + n - 1]
                   /\ Len(done) <= max_iter - start_iter[w]
                   /\ LoopOver(w) =>
                          /\ Len(done) = max_iter - start_iter[w]
                          /\ iteration[w] = max_iter - 1
            /\ \A n \in 1..Len(events[w]) :
                   events[w][n][1] = "final_save" => events[w][n][2] = max_iter - 1
            /\ \A n \in 1..Len(checkpoints) :
                   checkpoints[n].final => checkpoints[n].tag = max_iter - 1

\* A job started from a checkpoint, so with a start iteration above 0, has
\* executed at least two iterations and saved the final checkpoint.
C12_Witness ==
    \E w \in Ranks :
        /\ pc[w] = "done"
        /\ start_iter[w] > 0
        /\ Len(Executed(w)) >= 2
        /\ checkpoints[Len(checkpoints)].final

\* How often worker w has recorded the history write of this key for
\* iteration i.
Writes(w, i, key) ==
    Len(SelectSeq(events[w], LAMBDA e : e[1] = "history" /\ e[2] = i /\ e[3] = key))

\* What a completed iteration i leaves in a worker's record of history writes
\* and log lines: one write per loss key, in the order of the keys, then the
\* log line if i mod 20 = 0 or i = max_iter - 1.
WritesThenLog(i) ==
    [j \in 1..Len(env.loss_names) |-> <<"history", i, env.loss_names[j]>>]
        \o (IF i % 20 = 0 \/ i = max_iter - 1 THEN <<(<<"log", i>>)>> ELSE <<>>)

\* C13: of the iterations a worker has completed, exactly those with
\* i mod 20 = 0 or i = max_iter - 1 have produced the log line with the plots,
\* once, and no log line belongs to any other iteration; every completed
\* iteration, on the cadence or not, has appended to and rewritten the history
\* of each of its loss keys, once per key, before its log line.
C13_LogCadenceHistoryAlways ==
    \A w \in Ranks :
        /\ \A i \in Tested(w) :
               SelectSeq(events[w], LAMBDA e : e[1] \in {"history", "log"} /\ e[2] = i)
                   = WritesThenLog(i)
        /\ \A n \in 1..Len(events[w]) :
               /\ events[w][n][1] = "log" => events[w][n][2] \in Tested(w)
               /\ events[w][n][1] = "history" =>
                      /\ events[w][n][3] \in DOMAIN files
                      /\ files[events[w][n][3]].st = "ok"
                      /\ Len(files[events[w][n][3]].data) >= 1

\* A finished run of more than 20 iterations: iteration 20 and the last one
\* were logged, iteration 21 was not, and all three wrote the histories.
C13_Witness ==
    /\ pc[0] = "done"
    /\ max_iter > 22
    /\ Count(0, "log", 20) = 1
    /\ Count(0, "log", 21) = 0
    /\ Count(0, "log", max_iter - 1) = 1
    /\ \A i \in {20, 21, max_iter - 1} : Writes(0, i, env.loss_names[1]) = 1

\* C14: every forward pass of the training loop finds the model in training
\* mode, also the first one after a validation pass whose inference put the
\* model in evaluation mode.
C14_TrainingModeAtForward ==
    \A w \in Ranks : \A n \in 1..Len(events[w]) :
        /\ events[w][n][1] = "forward" => events[w][n][3] = TRUE
        /\ events[w][n][1] = "inference" =>
               (n = Len(events[w]) => training[w] = FALSE)

\* A worker has run a forward pass right after a validation pass with
\* inference on at least one dataset.
C14_Witness ==
    \E w \in Ranks : \E n \in 3..Len(events[w]) :
        /\ events[w][n][1] = "forward"
        /\ events[w][n - 1][1] = "sched"
        /\ events[w][n - 2][1] = "val_end"
        /\ \E m \in 1..(n - 3) : events[w][m][1] = "inference"

(* ===================== properties: synchronisation ===================== *)
\* Worker v has handed its tensors to the reduce of worker w's iteration i
\* (no job of a distributed run is started again, so the reduce of iteration i
\* is round i - start_iter + 1).
ArrivedAtReduce(v, w, i) == Len(sent[v]) >= i - start_iter[w] + 1

\* Worker w has got past the reduce of iteration i: it has taken the
\* optimizer step of i.
PastReduce(w, i) ==
    \E n \in 1..Len(events[w]) : events[w][n][1] = "opt" /\ events[w][n][2] = i

\* C15: with two or more workers no worker gets past the reduce of an
\* iteration before all the workers have arrived at it (so none completes the
\* iteration while one stays away), and no worker terminates without every
\* worker having arrived at every reduce.
C15_ReduceBlocksEveryWorker ==
    world_size >= 2 =>
        \A w \in Ranks : \A v \in Ranks :
            /\ rounds[w] <= Len(sent[v])
            /\ \A i \in 0..(max_iter - 1) : PastReduce(w, i) => ArrivedAtReduce(v, w, i)
            /\ pc[w] = "done" => Len(sent[v]) = max_iter

\* A worker other than rank 0, with a backend that folds nothing into its
\* buffer, has got past the reduce of its first iteration and is held in the
\* reduce of a later one at which rank 0 has not arrived.
C15_Witness ==
    /\ world_size >= 2
    /\ env.backend = "keep"
    /\ \E w \in Ranks \ {Dst} :
           /\ pc[w] = "reduce_wait"
           /\ iteration[w] >= 1
           /\ PastReduce(w, iteration[w] - 1)
           /\ Len(sent[Dst]) < Len(sent[w])

(* ===================== properties: shared files ======================== *)
\* Worker w takes the step that writes a history file.
WritesHistory(w) ==
    /\ Len(events'[w]) = Len(events[w]) + 1
    /\ events'[w][Len(events'[w])][1] = "history"

\* Worker w takes the step that saves the checkpoint of the loop.
SavesCheckpoint(w) ==
    /\ pc[w] = "log"
    /\ pc'[w] = "val"

\* The value for key number j that a worker's reduce buffer holds at
\* iteration i when the tensors of the workers in S were folded into it.
SumOfLosses(S, i, j) == Total(S, i, j)
AverageOfLosses(i, j) == RatDivInt(Total(Ranks, i, j), world_size)

\* The number of the key in the loss mapping.
KeyNumber(key) == CHOOSE j \in 1..Len(env.loss_names) : env.loss_names[j] = key

\* C16 as stated: with two or more workers every worker, of whatever rank,
\* writes the history file of every key in every iteration and saves the
\* checkpoint when one is due; right after a worker's write the file holds
\* that worker's history, whose newest entry is the average over the workers
\* on rank 0 and the sum over all the workers, not divided, on any other rank.
C16_LastWriterLeavesTheSum ==
    [][world_size >= 2 =>
          \A w \in Ranks :
              /\ WritesHistory(w) =>
                     LET key == events'[w][Len(events'[w])][3]
                         i == events'[w][Len(events'[w])][2]
                         mine == history'[w][key]
                     IN  /\ files'[key] = Pickled(mine)
                         /\ mine[Len(mine)] =
                                IF w = Dst THEN AverageOfLosses(i, KeyNumber(key))
                                ELSE SumOfLosses(Ranks, i, KeyNumber(key))
              /\ SavesCheckpoint(w) =>
                     /\ checkpoints' = Append(checkpoints, Saved(w, FALSE))
                     /\ \A j \in 1..Len(env.loss_names) :
                            Writes(w, iteration[w], env.loss_names[j]) = 1
    ]_vars

\* C16 as amended: the same, but on a rank other than 0 the newest entry is
\* what the reduce left in that worker's buffer, not divided: the sum over the
\* workers whose tensors the backend folded into it.
C16_LastWriterLeavesItsBuffer ==
    [][world_size >= 2 =>
          \A w \in Ranks :
              /\ WritesHistory(w) =>
                     LET key == events'[w][Len(events'[w])][3]
                         i == events'[w][Len(events'[w])][2]
                         mine == history'[w][key]
                     IN  /\ files'[key] = Pickled(mine)
                         /\ mine[Len(mine)] =
                                IF w = Dst THEN AverageOfLosses(i, KeyNumber(key))
                                ELSE SumOfLosses(Folded(w), i, KeyNumber(key))
              /\ SavesCheckpoint(w) =>
                     /\ checkpoints' = Append(checkpoints, Saved(w, FALSE))
                     /\ \A j \in 1..Len(env.loss_names) :
                            Writes(w, iteration[w], env.loss_names[j]) = 1
    ]_vars

\* Two workers have written the same key's file for the same iteration, a
\* rank other than 0 last: the file holds its history, which is not rank 0's;
\* and both have saved a checkpoint.
C16_Witness ==
    /\ world_size >= 2
    /\ \E w \in Ranks \ {Dst} : \E key \in KnownKeys : \E i \in 0..(max_iter - 1) :
           /\ Writes(Dst, i, key) = 1
           /\ Writes(w, i, key) = 1
           /\ Len(history[w][key]) = Len(history[Dst][key])
           /\ files[key] = Pickled(history[w][key])
           /\ history[w][key] # history[Dst][key]
           /\ \E n \in 1..Len(checkpoints) : checkpoints[n].rank = w
           /\ \E n \in 1..Len(checkpoints) : checkpoints[n].rank = Dst

(* ========================= properties: termination ===================== *)
\* Every worker has saved the final checkpoint and logged the total time.
Terminated == \A w \in Ranks : pc[w] = "done"

\* Some worker has failed.
SomeFailed == \E w \in Ranks : pc[w] = "failed"

\* Some worker waits in the reduce or in the barrier.
SomeWaiting == \E w \in Ranks : pc[w] \in {"reduce_wait", "sync_wait"}

\* C17: under fair scheduling, with any number of workers running the same
\* max_iter, start_iter, checkpoint_period and validation datasets, the run
\* gets to the state where every worker has terminated, unless a worker
\* fails; and whenever a worker waits in the reduce or in the barrier, the
\* state where no worker waits comes.
C17_EveryWorkerTerminates ==
    /\ <>(Terminated \/ SomeFailed)
    /\ SomeWaiting ~> ~SomeWaiting

\* Two or more workers have all terminated after a run of at least two
\* iterations with a validation pass over at least one dataset.
C17_Witness ==
    /\ world_size >= 2
    /\ Terminated
    /\ max_iter >= 2
    /\ \A w \in Ranks : \E n \in 1..Len(events[w]) : events[w][n][1] = "synced"

(* ===================== properties: history files ======================= *)
\* The history writes worker w has done for this key since it started.
WritesOf(w, key) ==
    Len(SelectSeq(events[w], LAMBDA e : e[1] = "history" /\ e[3] = key))

\* The load of worker w met end-of-file in one of the four files.
LoadMetEof(w) == Len(events[w]) >= 1 /\ events[w][1][1] = "load_eof"

\* C18: when the load of the four histories meets end-of-file in any one
\* file, all four histories in memory start empty, whatever the files read
\* before the failing one hold: each history has as many entries as the
\* worker has written since; and in a single process the first write of a
\* key leaves its file with that one entry, the loss of the first iteration,
\* in place of what it held.
C18_LoadIsAllOrNothing ==
    \A w \in Ranks :
        LoadMetEof(w) =>
            \A j \in 1..Len(LoadOrder) :
                LET key == LoadOrder[j]
                IN  /\ Len(history[w][key]) = WritesOf(w, key)
                    /\ (pc[w] = "loop" /\ iteration[w] = Unbound) => history[w][key] = <<>>
                    /\ (world_size = 1 /\ WritesOf(w, key) >= 1) =>
                           files[key] = Pickled(history[w][key])
                    /\ (world_size = 1 /\ WritesOf(w, key) = 1) =>
                           files[key] = Pickled(<<LossValue(w, start_iter[w], KeyNumber(key))>>)

\* A job that is never killed found end-of-file in a file after the first,
\* so after reading the two entries an earlier job left in the first, and its
\* first iteration has rewritten the first file with one entry.
C18_Witness ==
    /\ env.crash_budget = 0
    /\ world_size = 1
    /\ LoadMetEof(0)
    /\ events[0][1][2] > 1
    /\ iteration[0] = 0
    /\ WritesOf(0, LoadOrder[1]) = 1
    /\ Len(files[LoadOrder[1]].data) = 1
    /\ Len(PriorData) > 1

(* ===================== properties: unknown loss keys =================== *)
FourNames == {"loss_classifier", "loss_box_reg", "loss_objectness", "loss_rpn_box_reg"}

\* The position in the loss mapping of its first key that is none of the four
\* names, or 0.
FirstOther ==
    IF \E j \in 1..Len(env.loss_names) : env.loss_names[j] \notin FourNames
    THEN CHOOSE j \in 1..Len(env.loss_names) :
             /\ env.loss_names[j] \notin FourNames
             /\ \A h \in 1..(j - 1) : env.loss_names[h] \in FourNames
    ELSE 0

\* C19: when the model is called, in a run of at least one iteration, and
\* returns a key that is none of the four names, no
\* worker gets past the history append of that key in its first iteration: it
\* never logs, plots, saves a checkpoint or writes a history for that key, and
\* it fails exactly there, with the optimizer step of that iteration taken and
\* the histories of the keys before it written.
C19_OtherKeyAbortsAtAppend ==
    (FirstOther # 0 /\ max_iter > 0) =>
        \A w \in Ranks :
            /\ pc[w] \in {"start", "loop", "reduce", "reduce_wait", "backward",
                          "history", "failed"}
            /\ iteration[w] \in {Unbound, start_iter[w]}
            /\ pc[w] = "history" => key_idx[w] <= FirstOther
            /\ \A n \in 1..Len(events[w]) :
                   /\ events[w][n][1] \notin {"log", "save", "val_begin", "final_save", "report"}
                   /\ events[w][n][1] = "history" =>
                          events[w][n][3] # env.loss_names[FirstOther]
            /\ (pc[w] = "failed" /\ error[w] # "FileNotFoundError") =>
                   /\ error[w] = "NameError"
                   /\ iteration[w] = start_iter[w]
                   /\ events[w][Len(events[w])] =
                          <<"append_failed", iteration[w], env.loss_names[FirstOther]>>
                   /\ Count(w, "opt", iteration[w]) = 1
                   /\ SelectSeq(events[w], LAMBDA e : e[1] = "history")
                          = [j \in 1..(FirstOther - 1) |->
                                 <<"history", iteration[w], env.loss_names[j]>>]

\* A worker has failed at the append of loss_mask, the second key of its loss
\* mapping, after the optimizer step and the history write of the first key.
C19_Witness ==
    \E w \in Ranks :
        /\ FirstOther = 2
        /\ pc[w] = "failed"
        /\ error[w] = "NameError"
        /\ Count(w, "opt", 0) = 1
        /\ WritesOf(w, env.loss_names[1]) = 1

=============================================================================
